---- MODULE Spec2Model ----
(***************************************************************************)
(* Model of the Claude token monitor panel indicator (extension.js):       *)
(* the single-shot poll timer, the HTTP fetcher, the organization lookup,  *)
(* the usage normalizer and the adaptive choice of the next poll delay,    *)
(* and of the connection test of its preferences window (prefs.js).        *)
(*                                                                         *)
(* Handlers are written as functions from a state record to a state        *)
(* record, so that a handler is the composition of the calls it makes.     *)
(***************************************************************************)
EXTENDS Integers, Sequences, FiniteSets, Bags, TLC

VARIABLES
    cookie,             \* settings 'session-cookie' (sequence of characters)
    pollIntervalIdle,   \* settings 'poll-interval-idle'
    pollIntervalActive, \* settings 'poll-interval-active'
    storedSessionUsed,  \* settings 'last-session-used'
    storedWeeklyUsed,   \* settings 'last-weekly-used'
    orgId,              \* this._orgId
    timerId,            \* this._timerId
    sources,            \* GLib main loop: the pending timeout sources
    nextSourceId,       \* GLib main loop: id the next source will get
    inflight,           \* Soup session: requests sent, not yet completed
    lastSessionUsed,    \* this._lastSessionUsed
    lastWeeklyUsed,     \* this._lastWeeklyUsed
    statusText,         \* this._statusItem.label.text
    sessionDetail,      \* this._sessionDetail.label.text
    weeklyDetail,       \* this._weeklyDetail.label.text
    settingsChangedId,  \* this._settingsChangedId (TRUE: handler connected)
    sessionBar,         \* this._sessionBar: fill width, fill class, numbers text
    weeklyBar,          \* this._weeklyBar
    icon,               \* this._icon: icon name and style class
    sessionResetTime,   \* this._sessionResetTime
    weeklyResetTime,    \* this._weeklyResetTime
    sessionResetItem,   \* this._sessionResetItem.label.text
    weeklyResetItem,    \* this._weeklyResetItem.label.text
    updatedItem,        \* this._updatedItem.label.text (TRUE: a time is shown)
    testBtnSensitive,   \* prefs.js: testBtn.sensitive
    testInflight,       \* prefs.js: test requests sent, not yet completed
    testStatusLabel     \* prefs.js: this._testStatusLabel (label, css classes)

vars == <<cookie, pollIntervalIdle, pollIntervalActive, storedSessionUsed,
          storedWeeklyUsed, orgId, timerId, sources, nextSourceId, inflight,
          lastSessionUsed, lastWeeklyUsed, statusText, sessionDetail,
          weeklyDetail, settingsChangedId, sessionBar, weeklyBar, icon,
          sessionResetTime, weeklyResetTime, sessionResetItem, weeklyResetItem,
          updatedItem, testBtnSensitive, testInflight, testStatusLabel>>

-----------------------------------------------------------------------------
(* Bounds *)

MaxSourceIds == 2       \* GLib source ids are drawn from 1..MaxSourceIds, cyclically
MaxInFlight == 2        \* a poll starts only while fewer requests are in flight
MaxTests == 2           \* a test starts only while fewer test requests are in flight

-----------------------------------------------------------------------------
(* Program constants *)

ERROR_DELAY == 60       \* _scheduleNextPoll(60) of every error path
INITIAL_DELAY == 1      \* _scheduleNextPoll(1) of _init

NoTimer == 0            \* this._timerId === null

-----------------------------------------------------------------------------
(* JSON values, as JSON.parse produces them *)

JUndef == [t |-> "undef"]
JNull == [t |-> "null"]
JNum(n) == [t |-> "num", n |-> n]
JStr(str) == [t |-> "str", s |-> str]     \* str: sequence of characters
JArr(a) == [t |-> "arr", a |-> a]
JObj(o) == [t |-> "obj", o |-> o]       \* o: sequence of <<key, value>>, in key order

\* x ?? y
Nullish(x) == x.t \in {"undef", "null"}
Coalesce(x, y) == IF Nullish(x) THEN y ELSE x

\* x?.key : the value of the last member named key, undefined otherwise
\* (key: sequence of characters)
Prop(x, key) ==
    IF x.t # "obj" THEN JUndef
    ELSE LET hits == {i \in 1..Len(x.o) : x.o[i][1] = key}
         IN  IF hits = {} THEN JUndef
             ELSE x.o[CHOOSE i \in hits : \A j \in hits : j <= i][2]

\* x?.[0]
First(x) ==
    IF x.t = "arr" /\ Len(x.a) > 0 THEN x.a[1] ELSE JUndef

\* !x
Falsy(x) ==
    \/ Nullish(x)
    \/ x.t = "num" /\ x.n = 0
    \/ x.t = "str" /\ x.s = <<>>

-----------------------------------------------------------------------------
(* Credential *)

Space == " "
Prefix == "sessionKey="     \* stands for the eleven characters of the prefix

RECURSIVE TrimStart(_)
TrimStart(str) ==
    IF str # <<>> /\ Head(str) = Space THEN TrimStart(Tail(str)) ELSE str

RECURSIVE TrimEnd(_)
TrimEnd(str) ==
    IF str # <<>> /\ str[Len(str)] = Space
    THEN TrimEnd(SubSeq(str, 1, Len(str) - 1)) ELSE str

Trim(str) == TrimEnd(TrimStart(str))

\* CookieHeader without the trim
CookieHeaderNoTrim(setting) ==
    LET key == setting
    IN  IF key = <<>> THEN <<>>
        ELSE IF Head(key) = Prefix THEN key ELSE <<Prefix>> \o key

\* _cookieHeader; null is the empty sequence: both are falsy in '!key'
CookieHeader(setting) ==
    LET key == Trim(setting)
    IN  IF key = <<>> THEN <<>>
        ELSE IF Head(key) = Prefix THEN key ELSE <<Prefix>> \o key

-----------------------------------------------------------------------------
(* Strings and the regular expressions of the normalizer *)

AnyChar == "."  \* the pattern element that matches any character

UpperCase == <<"A","B","C","D","E","F","G","H","I","J","K","L","M",
               "N","O","P","Q","R","S","T","U","V","W","X","Y","Z">>
LowerCase == <<"a","b","c","d","e","f","g","h","i","j","k","l","m",
               "n","o","p","q","r","s","t","u","v","w","x","y","z">>

\* the /i flag: characters are compared in lower case
Lower(c) ==
    IF \E i \in 1..26 : UpperCase[i] = c
    THEN LowerCase[CHOOSE i \in 1..26 : UpperCase[i] = c]
    ELSE c

\* pat matches str at position i
MatchAt(str, i, pat) ==
    /\ i + Len(pat) - 1 <= Len(str)
    /\ \A j \in 1..Len(pat) : pat[j] = AnyChar \/ Lower(str[i + j - 1]) = pat[j]

\* RegExp.test for a pattern without alternatives
Search(str, pat) == \E i \in 1..(Len(str) + 1) : MatchAt(str, i, pat)

P_5xhour == <<"5", AnyChar, "h", "o", "u", "r">>
P_5hour == <<"5", "h", "o", "u", "r">>
P_window == <<"w", "i", "n", "d", "o", "w">>
P_session == <<"s", "e", "s", "s", "i", "o", "n">>
P_week == <<"w", "e", "e", "k">>
P_used == <<"u", "s", "e", "d">>
P_limit == <<"l", "i", "m", "i", "t">>
P_total == <<"t", "o", "t", "a", "l">>

\* /5.hour|5hour|window/i
ReSessionA(str) == Search(str, P_5xhour) \/ Search(str, P_5hour) \/ Search(str, P_window)
\* /5.hour|5hour|session|window/i
ReSessionB(str) == ReSessionA(str) \/ Search(str, P_session)
\* /week/i
ReWeek(str) == Search(str, P_week)
\* /5.?hour/i
Re5Hour(str) == Search(str, P_5xhour) \/ Search(str, P_5hour)
\* /used/i
ReUsed(str) == Search(str, P_used)
\* /limit|total/i
ReLimitTotal(str) == Search(str, P_limit) \/ Search(str, P_total)

\* String(v) of a value handed to RegExp.test: the text of a string; the
\* other values of the payloads have a text none of the patterns matches
ToText(v) == IF v.t = "str" THEN v.s ELSE <<>>

K_rate_limit_status == <<"r","a","t","e","_","l","i","m","i","t","_","s","t","a","t","u","s">>
K_type == <<"t","y","p","e">>
K_remaining == <<"r","e","m","a","i","n","i","n","g">>
K_tokens_remaining == <<"t","o","k","e","n","s","_">> \o K_remaining
K_total == <<"t","o","t","a","l">>
K_tokens_total == <<"t","o","k","e","n","s","_">> \o K_total
K_limit == <<"l","i","m","i","t">>
K_tokens_limit == <<"t","o","k","e","n","s","_">> \o K_limit
K_resetsAt == <<"r","e","s","e","t","s","A","t">>
K_reset_at == <<"r","e","s","e","t","_","a","t">>
K_resets_at == <<"r","e","s","e","t","s","_","a","t">>
K_quotas == <<"q","u","o","t","a","s">>
K_limits == <<"l","i","m","i","t","s">>
K_usage_limits == <<"u","s","a","g","e","_">> \o K_limits
K_window == <<"w","i","n","d","o","w">>
K_period == <<"p","e","r","i","o","d">>
K_used == <<"u","s","e","d">>
K_tokens_used == <<"t","o","k","e","n","s","_">> \o K_used
K_memberships == <<"m","e","m","b","e","r","s","h","i","p","s">>
K_account == <<"a","c","c","o","u","n","t">>
K_organization == <<"o","r","g","a","n","i","z","a","t","i","o","n">>
K_workspace == <<"w","o","r","k","s","p","a","c","e">>
K_uuid == <<"u","u","i","d">>
K_id == <<"i","d">>
K_organization_uuid == K_organization \o <<"_">> \o K_uuid
K_default_organization == <<"d","e","f","a","u","l","t","_">> \o K_organization

-----------------------------------------------------------------------------
(* _safeInt *)

Digits == <<"0","1","2","3","4","5","6","7","8","9">>
IsDigit(c) == \E i \in 1..10 : Digits[i] = c
DigitValue(c) == (CHOOSE i \in 1..10 : Digits[i] = c) - 1

\* the value of the longest prefix of digits of str, continuing from acc
RECURSIVE DigitsPrefix(_, _)
DigitsPrefix(str, acc) ==
    IF str # <<>> /\ IsDigit(Head(str))
    THEN DigitsPrefix(Tail(str), 10 * acc + DigitValue(Head(str)))
    ELSE acc

\* parseInt that takes a text only when all of it is digits
ParseIntWholeText(text) ==
    LET str == TrimStart(text)
        neg == str # <<>> /\ Head(str) = "-"
        body == IF str # <<>> /\ Head(str) \in {"-", "+"} THEN Tail(str) ELSE str
    IN  IF body = <<>> \/ \E i \in 1..Len(body) : ~IsDigit(body[i])
        THEN [nan |-> TRUE, n |-> 0]
        ELSE [nan |-> FALSE,
              n |-> IF neg THEN 0 - DigitsPrefix(body, 0) ELSE DigitsPrefix(body, 0)]

\* parseInt(str, 10) of a string: [nan |-> TRUE] when no digit follows the sign
ParseInt(text) ==
    LET str == TrimStart(text)
        neg == str # <<>> /\ Head(str) = "-"
        body == IF str # <<>> /\ Head(str) \in {"-", "+"} THEN Tail(str) ELSE str
    IN  IF body = <<>> \/ ~IsDigit(Head(body))
        THEN [nan |-> TRUE, n |-> 0]
        ELSE [nan |-> FALSE,
              n |-> IF neg THEN 0 - DigitsPrefix(body, 0) ELSE DigitsPrefix(body, 0)]

\* the decimal digits of a natural number
RECURSIVE NatText(_)
NatText(n) ==
    IF n < 10 THEN <<Digits[n + 1]>>
    ELSE Append(NatText(n \div 10), Digits[(n % 10) + 1])

\* String(v), which parseInt applies to its argument first: the digits of
\* a number (an integer here), 'null', 'undefined', the elements of an
\* array joined by commas, '[object Object]'
RECURSIVE StringOf(_)
RECURSIVE JoinText(_)
StringOf(v) ==
    IF v.t = "str" THEN v.s
    ELSE IF v.t = "num"
    THEN (IF v.n < 0 THEN <<"-">> \o NatText(0 - v.n) ELSE NatText(v.n))
    ELSE IF v.t = "null" THEN <<"n","u","l","l">>
    ELSE IF v.t = "arr" THEN JoinText(v.a)
    ELSE IF v.t = "obj"
    THEN <<"[","o","b","j","e","c","t"," ","O","b","j","e","c","t","]">>
    ELSE <<"u","n","d","e","f","i","n","e","d">>

JoinText(a) ==
    IF a = <<>> THEN <<>>
    ELSE (IF Nullish(Head(a)) THEN <<>> ELSE StringOf(Head(a)))
         \o (IF Len(a) > 1 THEN <<",">> \o JoinText(Tail(a)) ELSE <<>>)

\* _safeInt: parseInt(v, 10), then 0 unless finite
SafeInt(v) == IF ParseInt(StringOf(v)).nan THEN 0 ELSE ParseInt(StringOf(v)).n

-----------------------------------------------------------------------------
(* Organization lookup of _fetchAccount *)

ResolveOrgId(data) ==
    LET memberships == Coalesce(Prop(data, K_memberships),
                           Coalesce(Prop(Prop(data, K_account), K_memberships),
                                    JArr(<<>>)))
        org == Coalesce(Prop(First(memberships), K_organization),
                        Prop(First(memberships), K_workspace))
        first == Coalesce(Prop(org, K_uuid),
                     Coalesce(Prop(org, K_id),
                         Coalesce(Prop(data, K_id), JNull)))
    IN  IF Falsy(first)
        THEN Coalesce(Prop(data, K_organization_uuid),
                 Coalesce(Prop(Prop(data, K_default_organization), K_uuid), JNull))
        ELSE first

-----------------------------------------------------------------------------
(* Schema extraction of _applyUsageData *)

\* let sessionUsed = 0, sessionLimit = 1; ... sessionReset = null
DefaultSnapshot ==
    [sessionUsed |-> 0, sessionLimit |-> 1, sessionReset |-> JNull,
     weeklyUsed |-> 0, weeklyLimit |-> 1, weeklyReset |-> JNull]

\* Array.isArray(x) ? x : Object.values(x), for a truthy x
ValuesOf(x) ==
    IF x.t = "arr" THEN x.a
    ELSE IF x.t = "obj" THEN [i \in 1..Len(x.o) |-> x.o[i][2]]
    ELSE IF x.t = "str" THEN [i \in 1..Len(x.s) |-> JStr(<<x.s[i]>>)]
    ELSE <<>>

\* one iteration of the Schema A loop
SchemaAEntry(w, entry) ==
    LET type == ToText(Coalesce(Prop(entry, K_type), JStr(<<>>)))
        rem == SafeInt(Coalesce(Prop(entry, K_remaining), Prop(entry, K_tokens_remaining)))
        tot == SafeInt(Coalesce(Prop(entry, K_total),
                           Coalesce(Prop(entry, K_tokens_total), Prop(entry, K_limit))))
        used == tot - rem
        reset == Coalesce(Prop(entry, K_resetsAt),
                     Coalesce(Prop(entry, K_reset_at),
                         Coalesce(Prop(entry, K_resets_at), JNull)))
    IN  IF ReSessionA(type)
        THEN [w EXCEPT !.sessionUsed = used, !.sessionLimit = tot, !.sessionReset = reset]
        ELSE IF ReWeek(type)
        THEN [w EXCEPT !.weeklyUsed = used, !.weeklyLimit = tot, !.weeklyReset = reset]
        ELSE w

\* one iteration of the Schema B loop
SchemaBItem(w, q) ==
    LET type == ToText(Coalesce(Prop(q, K_window),
                           Coalesce(Prop(q, K_type),
                               Coalesce(Prop(q, K_period), JStr(<<>>)))))
        used == SafeInt(Coalesce(Prop(q, K_used), Prop(q, K_tokens_used)))
        limit == SafeInt(Coalesce(Prop(q, K_limit),
                             Coalesce(Prop(q, K_tokens_limit), Prop(q, K_total))))
        reset == Coalesce(Prop(q, K_reset_at), Coalesce(Prop(q, K_resetsAt), JNull))
    IN  IF ReSessionB(type)
        THEN [w EXCEPT !.sessionUsed = used, !.sessionLimit = limit, !.sessionReset = reset]
        ELSE IF ReWeek(type)
        THEN [w EXCEPT !.weeklyUsed = used, !.weeklyLimit = limit, !.weeklyReset = reset]
        ELSE w

\* one iteration of the Schema C loop, for the member <<k, v>>
SchemaCMember(w, kv) ==
    LET k == kv[1]
        v == kv[2]
        w1 == IF Re5Hour(k) /\ ReUsed(k) THEN [w EXCEPT !.sessionUsed = SafeInt(v)] ELSE w
        w2 == IF Re5Hour(k) /\ ReLimitTotal(k) THEN [w1 EXCEPT !.sessionLimit = SafeInt(v)] ELSE w1
        w3 == IF ReWeek(k) /\ ReUsed(k) THEN [w2 EXCEPT !.weeklyUsed = SafeInt(v)] ELSE w2
    IN  IF ReWeek(k) /\ ReLimitTotal(k) THEN [w3 EXCEPT !.weeklyLimit = SafeInt(v)] ELSE w3

RECURSIVE SchemaALoop(_, _)
SchemaALoop(w, entries) ==
    IF entries = <<>> THEN w
    ELSE SchemaALoop(SchemaAEntry(w, Head(entries)), Tail(entries))

RECURSIVE SchemaBLoop(_, _)
SchemaBLoop(w, quotas) ==
    IF quotas = <<>> THEN w
    ELSE SchemaBLoop(SchemaBItem(w, Head(quotas)), Tail(quotas))

RECURSIVE SchemaCLoop(_, _)
SchemaCLoop(w, members) ==
    IF members = <<>> THEN w
    ELSE SchemaCLoop(SchemaCMember(w, Head(members)), Tail(members))

SchemaA(w, data) ==
    LET rl == Prop(data, K_rate_limit_status)
    IN  IF Falsy(rl) THEN w ELSE SchemaALoop(w, ValuesOf(rl))

SchemaB(w, data) ==
    LET quotas == Coalesce(Prop(data, K_quotas),
                      Coalesce(Prop(data, K_limits),
                          Coalesce(Prop(data, K_usage_limits), JArr(<<>>))))
    IN  SchemaBLoop(w, IF quotas.t = "arr" THEN quotas.a ELSE <<>>)

\* Object.entries(data ?? {}): the members of an object, the indexed
\* elements of an array, nothing for a number
SchemaC(w, data) ==
    IF w.sessionLimit <= 1
    THEN SchemaCLoop(w, IF data.t = "obj" THEN data.o ELSE <<>>)
    ELSE w

Normalize(data) == SchemaC(SchemaB(SchemaA(DefaultSnapshot, data), data), data)

-----------------------------------------------------------------------------
(* Texts shown in the menu *)

Msg(kind, arg) == [kind |-> kind, arg |-> arg]
MsgNone == Msg("", 0)                           \* '' (also: err === null)
MsgConnecting == Msg("Connecting", 0)
MsgNoCookie == Msg("No session cookie configured", 0)
MsgAuthFailed == Msg("Authentication failed", 0)
MsgHttp(status) == Msg("HTTP", status)          \* `HTTP ${status}`
MsgInvalidJson == Msg("Invalid JSON from server", 0)
MsgNetwork == Msg("Network error", 0)
MsgNoOrg == Msg("Could not resolve organization ID", 0)
MsgUsage == Msg("Claude token usage", 0)

BlankDetail == [shown |-> FALSE, used |-> 0, limit |-> 0, pct |-> 0]
Detail(used, limit, pct) == [shown |-> TRUE, used |-> used, limit |-> limit, pct |-> pct]

\* Math.round(a / b), b > 0: the nearest integer, a half rounded up
RoundDiv(a, b) == (2 * a + b) \div (2 * b)

\* limit > 0 ? Math.round(used / limit * 100) : 0
Percent(used, limit) == IF limit > 0 THEN RoundDiv(100 * used, limit) ELSE 0

\* the track width of a bar in pixels
BAR_WIDTH == 110

\* settings 'show-numbers' in the behaviours checked
ShowNumbers == TRUE

BlankNumbers == [shown |-> FALSE, used |-> 0, limit |-> 0]

RECURSIVE Gcd(_, _)
Gcd(a, b) == IF b = 0 THEN a ELSE Gcd(b, a % b)

\* the number n / d, d > 0, in lowest terms
Fraction(n, d) ==
    LET g == Gcd(IF n < 0 THEN 0 - n ELSE n, d)
    IN  <<n \div g, d \div g>>

\* TokenBar._init: an empty fill of class ct-fill-normal, no numbers,
\* _pct = 0
NewTokenBar ==
    [fill |-> 0, class |-> "ct-fill-normal", numbers |-> BlankNumbers,
     pct |-> <<0, 1>>]

\* TokenBar.update without the two caps: the share and the fill beyond the track
TokenBarUpdateUncapped(bar, used, limit) ==
    IF limit <= 0 THEN bar
    ELSE [fill |-> RoundDiv(used * BAR_WIDTH, limit),
          class |-> IF used >= limit THEN "ct-fill-critical"
                    ELSE IF 5 * used >= 4 * limit THEN "ct-fill-warning"
                    ELSE "ct-fill-normal",
          numbers |-> IF ShowNumbers
                      THEN [shown |-> TRUE, used |-> used, limit |-> limit]
                      ELSE BlankNumbers,
          pct |-> Fraction(used, limit)]

\* TokenBar.update: nothing for limit <= 0; _pct is the used share, at most
\* 1.5; the fill is the share of the track, at most the whole track; the
\* class follows the share (>= 1.0 critical, >= 0.8 warning)
TokenBarUpdate(bar, used, limit) ==
    IF limit <= 0 THEN bar
    ELSE [fill |-> IF used >= limit THEN BAR_WIDTH ELSE RoundDiv(used * BAR_WIDTH, limit),
          class |-> IF used >= limit THEN "ct-fill-critical"
                    ELSE IF 5 * used >= 4 * limit THEN "ct-fill-warning"
                    ELSE "ct-fill-normal",
          numbers |-> IF ShowNumbers
                      THEN [shown |-> TRUE, used |-> used, limit |-> limit]
                      ELSE BlankNumbers,
          pct |-> IF 2 * used >= 3 * limit THEN <<3, 2>> ELSE Fraction(used, limit)]

\* the icon _init creates
NewIcon ==
    [icon_name |-> "emblem-synchronizing-symbolic",
     class |-> {"ct-icon", "system-status-icon"}]

\* Math.max(sessionLimit > 0 ? sessionUsed / sessionLimit : 0,
\*          weeklyLimit > 0 ? weeklyUsed / weeklyLimit : 0), as a fraction
MaxPct(w) ==
    LET a == IF w.sessionLimit > 0 THEN <<w.sessionUsed, w.sessionLimit>> ELSE <<0, 1>>
        b == IF w.weeklyLimit > 0 THEN <<w.weeklyUsed, w.weeklyLimit>> ELSE <<0, 1>>
    IN  IF a[1] * b[2] >= b[1] * a[2] THEN a ELSE b

\* IconUpdateTo that removes no style class
IconUpdateToAddsOnly(ic, m) ==
    IF m[1] >= m[2]
    THEN [icon_name |-> "dialog-error-symbolic",
          class |-> ic.class \cup {"ct-icon-critical"}]
    ELSE IF 5 * m[1] >= 4 * m[2]
    THEN [icon_name |-> "dialog-warning-symbolic",
          class |-> ic.class \cup {"ct-icon-warning"}]
    ELSE [icon_name |-> "utilities-system-monitor-symbolic", class |-> ic.class]

\* the icon branches of _applyUsageData for maxPct = m[1] / m[2]: the icon
\* name is set, style classes are removed and added
IconUpdateTo(ic, m) ==
    IF m[1] >= m[2]
    THEN [icon_name |-> "dialog-error-symbolic",
          class |-> (ic.class \ {"ct-icon-warning"}) \cup {"ct-icon-critical"}]
    ELSE IF 5 * m[1] >= 4 * m[2]
    THEN [icon_name |-> "dialog-warning-symbolic",
          class |-> (ic.class \ {"ct-icon-critical"}) \cup {"ct-icon-warning"}]
    ELSE [icon_name |-> "utilities-system-monitor-symbolic",
          class |-> (ic.class \ {"ct-icon-warning"}) \ {"ct-icon-critical"}]

\* the icon after a snapshot w
IconUpdate(ic, w) == IconUpdateTo(ic, MaxPct(w))

\* the text of a reset item: empty at first, then the formatted reset time,
\* or 'Unknown' for a falsy one
BlankItem == [shown |-> FALSE, known |-> FALSE, reset |-> JNull]
ResetItem(reset) ==
    IF Falsy(reset) THEN [shown |-> TRUE, known |-> FALSE, reset |-> JNull]
    ELSE [shown |-> TRUE, known |-> TRUE, reset |-> reset]

-----------------------------------------------------------------------------
(* Preferences window (prefs.js): the connection test *)

MsgTestNoCookie == Msg("No cookie entered", 0)
MsgTesting == Msg("Testing", 0)
MsgTestSuccessful == Msg("Connection successful", 0)
MsgTestAuthFailed == Msg("Authentication failed - wrong cookie?", 0)
MsgTestHttp(status) == Msg("x HTTP", status)        \* `✗ HTTP ${status}`
MsgTestError == Msg("x error", 0)                   \* `✗ ${e.message}`

\* the status label fillPreferencesWindow creates
NewTestStatusLabel == [label |-> MsgNone, css |-> {"dim-label"}]

\* _setTestStatus(text, ok) with ok one of "true", "false", "null"
SetTestStatus(s, text, ok) ==
    [s EXCEPT !.testStatusLabel =
        [label |-> text,
         css |-> ((s.testStatusLabel.css \ {"success"}) \ {"error"})
                 \cup (IF ok = "true" THEN {"success"}
                       ELSE IF ok = "false" THEN {"error"} ELSE {})]]

\* the Cookie header of the test request for a trimmed, non-empty key
TestCookie(key) == IF Head(key) = Prefix THEN key ELSE <<Prefix>> \o key

\* TestConnection that leaves the button as it is
TestConnectionKeepsButton(s) ==
    LET key == Trim(s.cookie)
    IN  IF key = <<>> THEN SetTestStatus(s, MsgTestNoCookie, "false")
        ELSE [SetTestStatus(s, MsgTesting, "null")
                 EXCEPT !.testInflight = s.testInflight (+) SetToBag({[cookie |-> TestCookie(key)]})]

\* _testConnection up to send_and_read_async
TestConnection(s) ==
    LET key == Trim(s.cookie)
    IN  IF key = <<>> THEN SetTestStatus(s, MsgTestNoCookie, "false")
        ELSE [SetTestStatus([s EXCEPT !.testBtnSensitive = FALSE], MsgTesting, "null")
                 EXCEPT !.testInflight = s.testInflight (+) SetToBag({[cookie |-> TestCookie(key)]})]

\* the callback of the test request, for the outcome resp
TestCallback(s, resp) ==
    LET s1 == [s EXCEPT !.testBtnSensitive = TRUE]
    IN  IF ~resp.transport THEN SetTestStatus(s1, MsgTestError, "false")
        ELSE IF resp.status = 200 THEN SetTestStatus(s1, MsgTestSuccessful, "true")
        ELSE IF resp.status = 401 \/ resp.status = 403
        THEN SetTestStatus(s1, MsgTestAuthFailed, "false")
        ELSE SetTestStatus(s1, MsgTestHttp(resp.status), "false")

-----------------------------------------------------------------------------
(* The state as a record, and the handlers as functions on it *)

St ==
    [cookie |-> cookie, pollIntervalIdle |-> pollIntervalIdle,
     pollIntervalActive |-> pollIntervalActive,
     storedSessionUsed |-> storedSessionUsed, storedWeeklyUsed |-> storedWeeklyUsed,
     orgId |-> orgId, timerId |-> timerId, sources |-> sources,
     nextSourceId |-> nextSourceId, inflight |-> inflight,
     lastSessionUsed |-> lastSessionUsed, lastWeeklyUsed |-> lastWeeklyUsed,
     statusText |-> statusText, sessionDetail |-> sessionDetail,
     weeklyDetail |-> weeklyDetail, settingsChangedId |-> settingsChangedId,
     sessionBar |-> sessionBar, weeklyBar |-> weeklyBar, icon |-> icon,
     sessionResetTime |-> sessionResetTime, weeklyResetTime |-> weeklyResetTime,
     sessionResetItem |-> sessionResetItem, weeklyResetItem |-> weeklyResetItem,
     updatedItem |-> updatedItem, testBtnSensitive |-> testBtnSensitive,
     testInflight |-> testInflight, testStatusLabel |-> testStatusLabel]

Assign(s) ==
    /\ cookie' = s.cookie
    /\ pollIntervalIdle' = s.pollIntervalIdle
    /\ pollIntervalActive' = s.pollIntervalActive
    /\ storedSessionUsed' = s.storedSessionUsed
    /\ storedWeeklyUsed' = s.storedWeeklyUsed
    /\ orgId' = s.orgId
    /\ timerId' = s.timerId
    /\ sources' = s.sources
    /\ nextSourceId' = s.nextSourceId
    /\ inflight' = s.inflight
    /\ lastSessionUsed' = s.lastSessionUsed
    /\ lastWeeklyUsed' = s.lastWeeklyUsed
    /\ statusText' = s.statusText
    /\ sessionDetail' = s.sessionDetail
    /\ weeklyDetail' = s.weeklyDetail
    /\ settingsChangedId' = s.settingsChangedId
    /\ sessionBar' = s.sessionBar
    /\ weeklyBar' = s.weeklyBar
    /\ icon' = s.icon
    /\ sessionResetTime' = s.sessionResetTime
    /\ weeklyResetTime' = s.weeklyResetTime
    /\ sessionResetItem' = s.sessionResetItem
    /\ weeklyResetItem' = s.weeklyResetItem
    /\ updatedItem' = s.updatedItem
    /\ testBtnSensitive' = s.testBtnSensitive
    /\ testInflight' = s.testInflight
    /\ testStatusLabel' = s.testStatusLabel

\* the handler's result is computed once, then assigned
Becomes(result) == \E s \in {result} : Assign(s)

\* _setStatus
SetStatus(s, msg) ==
    [s EXCEPT !.statusText = msg, !.sessionDetail = BlankDetail,
              !.weeklyDetail = BlankDetail]

\* CancelTimer that forgets the handle and leaves the source pending
CancelTimerKeepsSource(s) ==
    IF s.timerId # NoTimer THEN [s EXCEPT !.timerId = NoTimer] ELSE s

\* _cancelTimer: GLib.source_remove takes the source out of the main loop
CancelTimer(s) ==
    IF s.timerId # NoTimer
    THEN [s EXCEPT !.sources = {x \in s.sources : x.id # s.timerId},
                   !.timerId = NoTimer]
    ELSE s

\* _scheduleNextPoll: GLib.timeout_add_seconds gives the new source the next id
ScheduleNextPoll(s, delaySec) ==
    LET c == CancelTimer(s)
    IN  [c EXCEPT !.sources = c.sources \cup {[id |-> c.nextSourceId, delay |-> delaySec]},
                  !.timerId = c.nextSourceId,
                  !.nextSourceId = (c.nextSourceId % MaxSourceIds) + 1]

-----------------------------------------------------------------------------
(* HTTP fetcher *)

AccountEndpoint == [endpoint |-> "current_account", org |-> JNull]
UsageUrl(org) == [endpoint |-> "rate_limit_status", org |-> org]

Ok(json) == [data |-> json, err |-> MsgNone]
Err(msg) == [data |-> JNull, err |-> msg]

\* _get up to send_and_read_async: without a cookie the callback gets the
\* error at once, otherwise the request joins the requests in flight
Get(s, url) ==
    LET header == CookieHeader(s.cookie)
    IN  IF header = <<>>
        THEN [sent |-> FALSE, result |-> Err(MsgNoCookie), s |-> s]
        ELSE [sent |-> TRUE, result |-> Err(MsgNone),
              s |-> [s EXCEPT !.inflight =
                        s.inflight (+) SetToBag({[url |-> url, cookie |-> header]})]]

\* HttpResult with the 2xx range shifted by one
HttpResultOffByOne(resp) ==
    IF ~resp.transport THEN Err(MsgNetwork)
    ELSE IF resp.status = 401 \/ resp.status = 403 THEN Err(MsgAuthFailed)
    ELSE IF resp.status <= 200 \/ resp.status > 300 THEN Err(MsgHttp(resp.status))
    ELSE IF ~resp.body.valid THEN Err(MsgInvalidJson)
    ELSE Ok(resp.body.json)

\* the completion callback of _get: the result handed to the callback
HttpResult(resp) ==
    IF ~resp.transport THEN Err(MsgNetwork)
    ELSE IF resp.status = 401 \/ resp.status = 403 THEN Err(MsgAuthFailed)
    ELSE IF resp.status < 200 \/ resp.status >= 300 THEN Err(MsgHttp(resp.status))
    ELSE IF ~resp.body.valid THEN Err(MsgInvalidJson)
    ELSE Ok(resp.body.json)

-----------------------------------------------------------------------------
(* Environment: the settings store, the server and the user *)

\* values of 'session-cookie': blank, a raw key, a prefixed key
Cookies == {<<Space>>, <<Space, "a">>, <<Prefix, "b">>}

\* the configured <<'poll-interval-idle', 'poll-interval-active'>>
PollIntervals == {<<120, 5>>}
UsedValues == {0, 1}            \* used tokens the server reports per window
TokenLimit == 2                 \* the total the server reports per window

\* the organization the server knows for the account of a cookie header
OrgOf(header) == <<"o", "r", "g", "-", header[Len(header)]>>

\* { memberships: [ { organization: { uuid } } ] }
AccountJson(org) ==
    JObj(<< <<K_memberships,
              JArr(<< JObj(<< <<K_organization,
                                JObj(<< <<K_uuid, JStr(org)>> >>)>> >>) >>)>> >>)

\* an object of the members that are present (value not undefined)
ObjOf(members) ==
    LET Present(m) == m[2] # JUndef
    IN  JObj(SelectSeq(members, Present))

OrgName(c) == JStr(<<"o", c>>)

\* what a 'memberships' member can hold: nothing, an empty list, or a list
\* whose first membership names an organization or a workspace
MembershipLists(c) ==
    {JUndef, JArr(<<>>),
     JArr(<<ObjOf(<< <<K_organization, ObjOf(<< <<K_uuid, OrgName(c)>> >>)>> >>)>>),
     JArr(<<ObjOf(<< <<K_organization, ObjOf(<< <<K_id, OrgName(c)>> >>)>> >>)>>),
     JArr(<<ObjOf(<< <<K_organization, ObjOf(<< <<K_uuid, OrgName(c)>>,
                                                <<K_id, OrgName("x")>> >>)>> >>)>>),
     JArr(<<ObjOf(<< <<K_workspace, ObjOf(<< <<K_uuid, OrgName(c)>> >>)>> >>)>>)}

\* account bodies: every combination of the places an identifier can be in
AccountPayloads ==
    {ObjOf(<< <<K_memberships, m>>,
              <<K_account, IF am = JUndef THEN JUndef ELSE ObjOf(<< <<K_memberships, am>> >>)>>,
              <<K_id, i>>,
              <<K_organization_uuid, ou>>,
              <<K_default_organization, d>> >>) :
        m \in MembershipLists("1"),
        am \in {JUndef, JArr(<<>>), JArr(<<ObjOf(<< <<K_organization,
                                          ObjOf(<< <<K_uuid, OrgName("2")>> >>)>> >>)>>)},
        i \in {JUndef, OrgName("3")},
        ou \in {JUndef, OrgName("4")},
        d \in {JUndef, ObjOf(<< <<K_uuid, OrgName("5")>> >>)}}

\* { rate_limit_status: { a: { type: 'window5Hour', remaining, total },
\*                        b: { type: 'weekly', remaining, total } } }
UsageJson(sessionUsed, weeklyUsed) ==
    JObj(<< <<K_rate_limit_status,
              JObj(<< << <<"a">>,
                         JObj(<< <<K_type, JStr(<<"w","i","n","d","o","w","5","H","o","u","r">>)>>,
                                 <<K_remaining, JNum(TokenLimit - sessionUsed)>>,
                                 <<K_total, JNum(TokenLimit)>> >>)>>,
                      << <<"b">>,
                         JObj(<< <<K_type, JStr(<<"w","e","e","k","l","y">>)>>,
                                 <<K_remaining, JNum(TokenLimit - weeklyUsed)>>,
                                 <<K_total, JNum(TokenLimit)>> >>)>> >>)>> >>)

EmptyJson == JObj(<<>>)

InvalidBody == [valid |-> FALSE, json |-> JUndef]
JsonBody(json) == [valid |-> TRUE, json |-> json]

\* type strings and flat keys of the usage bodies
T_window5Hour == <<"w","i","n","d","o","w","5","H","o","u","r">>
T_weekly == <<"w","e","e","k","l","y">>
T_weeklyWindow == <<"w","e","e","k","l","y","_","w","i","n","d","o","w">>
T_session == <<"s","e","s","s","i","o","n">>
C_5hour_used == <<"5","h","o","u","r","_","u","s","e","d">>
C_5hour_limit == <<"5","h","o","u","r","_","l","i","m","i","t">>
C_week_used == <<"w","e","e","k","_","u","s","e","d">>
C_week_limit == <<"w","e","e","k","_","l","i","m","i","t">>
ResetText == JStr(<<"2","0","2","4">>)

\* a Schema A entry { type, remaining, total, resetsAt }, absent members left out
EntryA(type, rem, tot, reset) ==
    ObjOf(<< <<K_type, JStr(type)>>, <<K_remaining, rem>>, <<K_total, tot>>,
             <<K_resetsAt, reset>> >>)

\* a Schema B item { window, used, limit, reset_at }
ItemB(window, used, limit) ==
    ObjOf(<< <<K_window, JStr(window)>>, <<K_used, JNum(used)>>, <<K_limit, JNum(limit)>>,
             <<K_reset_at, ResetText>> >>)

\* <<remaining, total>> of a Schema A entry: numbers, total missing,
\* remaining above total, digits in strings, a total that is no number
RemainingTotal ==
    {<<JNum(152000), JNum(200000)>>, <<JNum(5), JUndef>>, <<JNum(3), JNum(2)>>,
     <<JStr(<<"1">>), JStr(<<"4">>)>>, <<JNum(0), JStr(<<"x">>)>>}

\* usage bodies: every combination of a Schema A part (session and weekly
\* entry), a Schema B part (session and weekly item) and Schema C flat keys
UsagePayloads ==
    {ObjOf(<< <<K_rate_limit_status,
                IF sa = JUndef /\ wa = JUndef THEN JUndef
                ELSE ObjOf(<< << <<"a">>, sa>>, << <<"b">>, wa>> >>)>>,
              <<K_quotas, q>>,
              <<C_5hour_used, c[1]>>, <<C_5hour_limit, c[2]>>,
              <<C_week_used, c[3]>>, <<C_week_limit, c[4]>> >>) :
        sa \in {JUndef} \cup {EntryA(T_window5Hour, rt[1], rt[2], rs) :
                                 rt \in RemainingTotal, rs \in {JUndef, ResetText}},
        wa \in {JUndef, EntryA(T_weekly, JNum(1), JNum(10), ResetText),
                EntryA(T_weekly, JNum(4), JNum(3), JUndef),
                EntryA(T_weeklyWindow, JNum(2), JNum(20), ResetText)},
        q \in {JUndef, JArr(<<ItemB(T_session, 7, 9)>>), JArr(<<ItemB(T_weekly, 7, 9)>>),
               JArr(<<ItemB(T_session, 7, 9), ItemB(T_weekly, 6, 8)>>),
               JArr(<<ItemB(T_session, 9, 5)>>)},
        c \in {<<JUndef, JUndef, JUndef, JUndef>>,
               <<JNum(17), JNum(19), JUndef, JUndef>>,
               <<JUndef, JUndef, JNum(11), JNum(13)>>,
               <<JNum(17), JNum(19), JNum(11), JNum(13)>>}}

\* values handed to _safeInt: null, texts that are no number, digits, a
\* number, digits with a fraction, a sign, a leading blank or a tail, an
\* empty text
SafeIntValues ==
    {JNull, JStr(<<"a","b","c">>), JStr(<<"1","2","3">>), JNum(123),
     JStr(<<"1","2","3",".","7">>), JStr(<<"-","5">>), JStr(<<" ","4","2">>),
     JStr(<<"1","2","a","b","c">>), JStr(<<>>), JNum(0 - 7), JStr(<<".","5">>),
     JNum(0)}

\* usage bodies that hand a value to _safeInt as it is: v under the flat
\* key 5hour_used (Schema C), and e, which can be missing, as the total of
\* a weekly entry without remaining (Schema A)
SafeIntPayloads ==
    {ObjOf(<< <<K_rate_limit_status,
                ObjOf(<< << <<"b">>, EntryA(T_weekly, JUndef, e, JUndef)>> >>)>>,
              <<C_5hour_used, v>> >>) :
        v \in SafeIntValues, e \in SafeIntValues \cup {JUndef}}

\* the usage bodies of the server, and Normalize of each, computed once
UsageJsons == {UsageJson(su, wu) : su \in UsedValues, wu \in UsedValues} \cup {EmptyJson}
NormalizeTable ==
    [j \in UsageJsons \cup UsagePayloads \cup SafeIntPayloads |-> Normalize(j)]

\* the JSON bodies the server answers a request with
Payloads(req) ==
    IF req.url.endpoint = "current_account"
    THEN {AccountJson(OrgOf(req.cookie)), EmptyJson}
    ELSE UsageJsons

TransportFailure == [transport |-> FALSE, status |-> 0, body |-> InvalidBody]

\* the outcomes of a request: no response, or a status with a body (an
\* error page where the body is not JSON)
Responses(req) ==
    {TransportFailure}
    \cup {[transport |-> TRUE, status |-> st, body |-> InvalidBody] : st \in {200, 300, 401}}
    \cup {[transport |-> TRUE, status |-> st, body |-> JsonBody(EmptyJson)] : st \in {299, 403}}
    \cup {[transport |-> TRUE, status |-> 200, body |-> JsonBody(j)] : j \in Payloads(req)}

-----------------------------------------------------------------------------
(* Poll cycle *)

\* ShowAndReschedule taking an unchanged used value for activity
ShowAndRescheduleAtLeast(s, w) ==
    LET tokensMoved == w.sessionUsed >= s.lastSessionUsed \/ w.weeklyUsed >= s.lastWeeklyUsed
        nextInterval == IF tokensMoved THEN s.pollIntervalActive ELSE s.pollIntervalIdle
    IN  ScheduleNextPoll(
            [s EXCEPT !.lastSessionUsed = w.sessionUsed,
                      !.lastWeeklyUsed = w.weeklyUsed,
                      !.storedSessionUsed = w.sessionUsed,
                      !.storedWeeklyUsed = w.weeklyUsed,
                      !.statusText = MsgUsage,
                      !.sessionDetail = Detail(w.sessionUsed, w.sessionLimit,
                                               Percent(w.sessionUsed, w.sessionLimit)),
                      !.weeklyDetail = Detail(w.weeklyUsed, w.weeklyLimit,
                                              Percent(w.weeklyUsed, w.weeklyLimit)),
                      !.sessionBar = TokenBarUpdate(s.sessionBar, w.sessionUsed, w.sessionLimit),
                      !.weeklyBar = TokenBarUpdate(s.weeklyBar, w.weeklyUsed, w.weeklyLimit),
                      !.icon = IconUpdate(s.icon, w),
                      !.sessionResetTime = w.sessionReset,
                      !.weeklyResetTime = w.weeklyReset,
                      !.sessionResetItem = ResetItem(w.sessionReset),
                      !.weeklyResetItem = ResetItem(w.weeklyReset),
                      !.updatedItem = TRUE],
            nextInterval)

\* ShowAndReschedule that does not write the weekly counter to the settings
ShowAndRescheduleWeeklyNotStored(s, w) ==
    LET tokensMoved == w.sessionUsed > s.lastSessionUsed \/ w.weeklyUsed > s.lastWeeklyUsed
        nextInterval == IF tokensMoved THEN s.pollIntervalActive ELSE s.pollIntervalIdle
    IN  ScheduleNextPoll(
            [s EXCEPT !.lastSessionUsed = w.sessionUsed,
                      !.lastWeeklyUsed = w.weeklyUsed,
                      !.storedSessionUsed = w.sessionUsed,
                      !.statusText = MsgUsage,
                      !.sessionDetail = Detail(w.sessionUsed, w.sessionLimit,
                                               Percent(w.sessionUsed, w.sessionLimit)),
                      !.weeklyDetail = Detail(w.weeklyUsed, w.weeklyLimit,
                                              Percent(w.weeklyUsed, w.weeklyLimit)),
                      !.sessionBar = TokenBarUpdate(s.sessionBar, w.sessionUsed, w.sessionLimit),
                      !.weeklyBar = TokenBarUpdate(s.weeklyBar, w.weeklyUsed, w.weeklyLimit),
                      !.icon = IconUpdate(s.icon, w),
                      !.sessionResetTime = w.sessionReset,
                      !.weeklyResetTime = w.weeklyReset,
                      !.sessionResetItem = ResetItem(w.sessionReset),
                      !.weeklyResetItem = ResetItem(w.weeklyReset),
                      !.updatedItem = TRUE],
            nextInterval)

\* _applyUsageData after the schema extraction, for the extracted values w:
\* the adaptive interval, the stored counters, the bars, the icon, the menu
\* texts and reset times, the next poll
ShowAndReschedule(s, w) ==
    LET tokensMoved == w.sessionUsed > s.lastSessionUsed \/ w.weeklyUsed > s.lastWeeklyUsed
        nextInterval == IF tokensMoved THEN s.pollIntervalActive ELSE s.pollIntervalIdle
    IN  ScheduleNextPoll(
            [s EXCEPT !.lastSessionUsed = w.sessionUsed,
                      !.lastWeeklyUsed = w.weeklyUsed,
                      !.storedSessionUsed = w.sessionUsed,
                      !.storedWeeklyUsed = w.weeklyUsed,
                      !.statusText = MsgUsage,
                      !.sessionDetail = Detail(w.sessionUsed, w.sessionLimit,
                                               Percent(w.sessionUsed, w.sessionLimit)),
                      !.weeklyDetail = Detail(w.weeklyUsed, w.weeklyLimit,
                                              Percent(w.weeklyUsed, w.weeklyLimit)),
                      !.sessionBar = TokenBarUpdate(s.sessionBar, w.sessionUsed, w.sessionLimit),
                      !.weeklyBar = TokenBarUpdate(s.weeklyBar, w.weeklyUsed, w.weeklyLimit),
                      !.icon = IconUpdate(s.icon, w),
                      !.sessionResetTime = w.sessionReset,
                      !.weeklyResetTime = w.weeklyReset,
                      !.sessionResetItem = ResetItem(w.sessionReset),
                      !.weeklyResetItem = ResetItem(w.weeklyReset),
                      !.updatedItem = TRUE],
            nextInterval)

\* _applyUsageData (no step of it raises on a JSON value)
ApplyUsageData(s, data) == ShowAndReschedule(s, NormalizeTable[data])

\* UsageCallback backing off by the idle interval after an error
UsageCallbackIdleBackoff(s, res) ==
    IF res.err # MsgNone
    THEN ScheduleNextPoll(SetStatus(s, res.err), s.pollIntervalIdle)
    ELSE ApplyUsageData(s, res.data)

\* the callback of _fetchUsage; the catch around _applyUsageData is not
\* reached
UsageCallback(s, res) ==
    IF res.err # MsgNone
    THEN ScheduleNextPoll(SetStatus(s, res.err), ERROR_DELAY)
    ELSE ApplyUsageData(s, res.data)

\* _fetchUsage
FetchUsage(s) ==
    LET g == Get(s, UsageUrl(s.orgId))
    IN  IF g.sent THEN g.s ELSE UsageCallback(g.s, g.result)

\* AccountCallback that asks for the usage whether or not an organization
\* was found
AccountCallbackKeepsGoing(s, res) ==
    IF res.err # MsgNone
    THEN ScheduleNextPoll(SetStatus(s, res.err), ERROR_DELAY)
    ELSE FetchUsage([s EXCEPT !.orgId = ResolveOrgId(res.data)])

\* AccountCallback that arms no timer when no organization is found
AccountCallbackNoRetry(s, res) ==
    IF res.err # MsgNone
    THEN ScheduleNextPoll(SetStatus(s, res.err), ERROR_DELAY)
    ELSE LET s1 == [s EXCEPT !.orgId = ResolveOrgId(res.data)]
         IN  IF Falsy(s1.orgId)
             THEN SetStatus(s1, MsgNoOrg)
             ELSE FetchUsage(s1)

\* the callback of _fetchAccount (nothing in its try block raises on a JSON value)
AccountCallback(s, res) ==
    IF res.err # MsgNone
    THEN ScheduleNextPoll(SetStatus(s, res.err), ERROR_DELAY)
    ELSE LET s1 == [s EXCEPT !.orgId = ResolveOrgId(res.data)]
         IN  IF Falsy(s1.orgId)
             THEN ScheduleNextPoll(SetStatus(s1, MsgNoOrg), ERROR_DELAY)
             ELSE FetchUsage(s1)

\* _fetchAccount
FetchAccount(s) ==
    LET g == Get(SetStatus(s, MsgConnecting), AccountEndpoint)
    IN  IF g.sent THEN g.s ELSE AccountCallback(g.s, g.result)

\* _fetchData
FetchData(s) ==
    IF Falsy(s.orgId) THEN FetchAccount(s) ELSE FetchUsage(s)

-----------------------------------------------------------------------------
(* Initial state: ClaudeTokenIndicator._init *)

Init ==
    /\ cookie \in Cookies
    /\ \E p \in PollIntervals : pollIntervalIdle = p[1] /\ pollIntervalActive = p[2]
    /\ storedSessionUsed = 0
    /\ storedWeeklyUsed = 0
    /\ orgId = JNull
    /\ lastSessionUsed = storedSessionUsed
    /\ lastWeeklyUsed = storedWeeklyUsed
    /\ timerId = 1
    /\ sources = {[id |-> 1, delay |-> INITIAL_DELAY]}
    /\ nextSourceId = (1 % MaxSourceIds) + 1
    /\ inflight = EmptyBag
    /\ statusText = MsgNone
    /\ sessionDetail = BlankDetail
    /\ weeklyDetail = BlankDetail
    /\ settingsChangedId = TRUE
    /\ sessionBar = NewTokenBar
    /\ weeklyBar = NewTokenBar
    /\ icon = NewIcon
    /\ sessionResetTime = JNull
    /\ weeklyResetTime = JNull
    /\ sessionResetItem = BlankItem
    /\ weeklyResetItem = BlankItem
    /\ updatedItem = FALSE
    /\ testBtnSensitive = TRUE
    /\ testInflight = EmptyBag
    /\ testStatusLabel = NewTestStatusLabel

-----------------------------------------------------------------------------
(* Actions *)

\* the state after the timeout callback of _scheduleNextPoll ran for the
\* source x; the source is removed (GLib.SOURCE_REMOVE)
AfterTimerFire(x) ==
    FetchData([St EXCEPT !.sources = sources \ {x}, !.timerId = NoTimer])

Completed(req) == [St EXCEPT !.inflight = inflight (-) SetToBag({req})]

\* the state after the callback of the account request req ran on resp
AfterAccount(req, resp) == AccountCallback(Completed(req), HttpResult(resp))

\* the state after the callback of the usage request req ran on resp
AfterUsage(req, resp) == UsageCallback(Completed(req), HttpResult(resp))

\* the state after the 'changed::session-cookie' handler ran
AfterCredential(c) == ScheduleNextPoll([St EXCEPT !.cookie = c, !.orgId = JNull], 0)

\* AfterRefresh that also forgets the organization
AfterRefreshClearsOrg == ScheduleNextPoll([St EXCEPT !.orgId = JNull], 0)

\* the state after the 'Refresh now' handler ran
AfterRefresh == ScheduleNextPoll(St, 0)

\* the state after destroy ran
AfterDestroy == [CancelTimer(St) EXCEPT !.settingsChangedId = FALSE]

TimerFire(x) ==
    /\ x \in sources
    /\ BagCardinality(inflight) < MaxInFlight
    /\ Becomes(AfterTimerFire(x))

\* the account request req completes with resp
AccountComplete(req, resp) ==
    /\ BagIn(req, inflight)
    /\ req.url.endpoint = "current_account"
    /\ Becomes(AfterAccount(req, resp))

\* the usage request req completes with resp
UsageComplete(req, resp) ==
    /\ BagIn(req, inflight)
    /\ req.url.endpoint = "rate_limit_status"
    /\ Becomes(AfterUsage(req, resp))

\* 'changed::session-cookie' while the handler is connected
CredentialChanged(c) ==
    /\ settingsChangedId
    /\ c # cookie
    /\ Becomes(AfterCredential(c))

\* the cookie is edited after the handler was disconnected
CookieEdited(c) ==
    /\ ~settingsChangedId
    /\ c # cookie
    /\ Becomes([St EXCEPT !.cookie = c])

\* 'Refresh now'
ManualRefresh ==
    /\ settingsChangedId
    /\ Becomes(AfterRefresh)

\* destroy
Destroy ==
    /\ settingsChangedId
    /\ Becomes(AfterDestroy)

Requests == BagToSet(inflight)
AccountRequests == {r \in Requests : r.url.endpoint = "current_account"}
UsageRequests == {r \in Requests : r.url.endpoint = "rate_limit_status"}

Next ==
    \/ \E x \in sources : TimerFire(x)
    \/ \E req \in Requests : \E resp \in Responses(req) : AccountComplete(req, resp)
    \/ \E req \in Requests : \E resp \in Responses(req) : UsageComplete(req, resp)
    \/ \E c \in Cookies : CredentialChanged(c)
    \/ \E c \in Cookies : CookieEdited(c)
    \/ ManualRefresh
    \/ Destroy

Spec == Init /\ [][Next]_vars

\* the main loop dispatches a pending timeout, and the Soup session
\* completes every request (with a response or a transport error)
PollStart == \E x \in sources : TimerFire(x)
Completion ==
    \E req \in Requests : \E resp \in Responses(req) :
        AccountComplete(req, resp) \/ UsageComplete(req, resp)

FairSpec == Spec /\ WF_vars(PollStart) /\ WF_vars(Completion)

\* the indicator from _init to destroy: what the handlers of a destroyed
\* indicator do is left out
NextBeforeDestroy ==
    \/ settingsChangedId /\ \E x \in sources : TimerFire(x)
    \/ settingsChangedId /\ \E req \in Requests : \E resp \in Responses(req) :
                                AccountComplete(req, resp)
    \/ settingsChangedId /\ \E req \in Requests : \E resp \in Responses(req) :
                                UsageComplete(req, resp)
    \/ \E c \in Cookies : CredentialChanged(c)
    \/ ManualRefresh
    \/ Destroy

FairSpecBeforeDestroy ==
    /\ Init /\ [][NextBeforeDestroy]_vars
    /\ WF_vars(settingsChangedId /\ PollStart)
    /\ WF_vars(settingsChangedId /\ Completion)

\* the program when 'Refresh now' is never used
NextNoRefresh ==
    \/ \E x \in sources : TimerFire(x)
    \/ \E req \in Requests : \E resp \in Responses(req) : AccountComplete(req, resp)
    \/ \E req \in Requests : \E resp \in Responses(req) : UsageComplete(req, resp)
    \/ \E c \in Cookies : CredentialChanged(c)
    \/ \E c \in Cookies : CookieEdited(c)
    \/ Destroy

NoRefreshSpec == Init /\ [][NextNoRefresh]_vars

\* AfterRestart with the counters starting from zero
AfterRestartFromZero ==
    ScheduleNextPoll(
        [St EXCEPT !.orgId = JNull,
                   !.lastSessionUsed = 0, !.lastWeeklyUsed = 0,
                   !.timerId = NoTimer,
                   !.statusText = MsgNone,
                   !.sessionDetail = BlankDetail, !.weeklyDetail = BlankDetail,
                   !.settingsChangedId = TRUE,
                   !.sessionBar = NewTokenBar, !.weeklyBar = NewTokenBar,
                   !.icon = NewIcon,
                   !.sessionResetTime = JNull, !.weeklyResetTime = JNull,
                   !.sessionResetItem = BlankItem, !.weeklyResetItem = BlankItem,
                   !.updatedItem = FALSE],
        INITIAL_DELAY)

\* the state after enable() created a new indicator on the same settings:
\* _init reads the counters from the settings and arms the first poll
AfterRestart ==
    ScheduleNextPoll(
        [St EXCEPT !.orgId = JNull,
                   !.lastSessionUsed = storedSessionUsed,
                   !.lastWeeklyUsed = storedWeeklyUsed,
                   !.timerId = NoTimer,
                   !.statusText = MsgNone,
                   !.sessionDetail = BlankDetail, !.weeklyDetail = BlankDetail,
                   !.settingsChangedId = TRUE,
                   !.sessionBar = NewTokenBar, !.weeklyBar = NewTokenBar,
                   !.icon = NewIcon,
                   !.sessionResetTime = JNull, !.weeklyResetTime = JNull,
                   !.sessionResetItem = BlankItem, !.weeklyResetItem = BlankItem,
                   !.updatedItem = FALSE],
        INITIAL_DELAY)

\* the destroyed indicator has no request and no timer left
AtRest == ~settingsChangedId /\ inflight = EmptyBag /\ sources = {}

\* disable() then enable(), once the destroyed indicator is at rest
Restart ==
    /\ AtRest
    /\ Becomes(AfterRestart)

RestartNext ==
    \/ settingsChangedId /\ \E x \in sources : TimerFire(x)
    \/ settingsChangedId /\ \E req \in Requests : \E resp \in Responses(req) :
                                AccountComplete(req, resp)
    \/ settingsChangedId /\ \E req \in Requests : \E resp \in Responses(req) :
                                UsageComplete(req, resp)
    \/ \E c \in Cookies : CredentialChanged(c)
    \/ ManualRefresh
    \/ Destroy
    \/ Restart

\* the indicator destroyed and created again on the same settings
RestartSpec == Init /\ [][RestartNext]_vars

\* texts of the cookie row of the preferences window
PrefsCookies == Cookies \cup {<<>>, <<"c", Space>>}

\* the outcomes of a test request: no response, or a status
TestResponses ==
    {[transport |-> FALSE, status |-> 0]}
    \cup {[transport |-> TRUE, status |-> st] : st \in {200, 201, 299, 300, 401, 403, 404, 500}}

\* the state after the 'clicked' handler of the Test button ran
AfterTestClicked == TestConnection(St)

\* the state after the callback of the test request req ran on resp
AfterTestCompleted(req, resp) ==
    TestCallback([St EXCEPT !.testInflight = testInflight (-) SetToBag({req})], resp)

\* the Test button is clicked; an insensitive button emits no 'clicked'
TestClicked ==
    /\ testBtnSensitive
    /\ BagCardinality(testInflight) < MaxTests
    /\ Becomes(AfterTestClicked)

\* the test request req completes with resp
TestCompleted(req, resp) ==
    /\ BagIn(req, testInflight)
    /\ Becomes(AfterTestCompleted(req, resp))

\* the cookie row is edited: the bound setting changes, and the
\* indicator's 'changed::session-cookie' handler runs
CookieRowEdited(c) ==
    /\ settingsChangedId
    /\ c # cookie
    /\ Becomes(AfterCredential(c))

PrefsNext ==
    \/ TestClicked
    \/ \E req \in BagToSet(testInflight) : \E resp \in TestResponses : TestCompleted(req, resp)
    \/ \E c \in PrefsCookies : CookieRowEdited(c)

\* the preferences window open next to the indicator, the indicator's
\* timers and requests left out
PrefsSpec == Init /\ [][PrefsNext]_vars

\* a 200 response with the JSON body json
OkResponse(json) == [transport |-> TRUE, status |-> 200, body |-> JsonBody(json)]

\* the requests in flight whose answer is already on its way: the request
\* carries the body it will be answered with
Answered(reqs) == {r \in reqs : "body" \in DOMAIN r}

\* the state after the first poll sent a request to url, to be answered
\* with body
SentFirst(url, org, body) ==
    [cookie |-> <<Space, "a">>, pollIntervalIdle |-> 120, pollIntervalActive |-> 5,
     storedSessionUsed |-> 0, storedWeeklyUsed |-> 0,
     orgId |-> org, timerId |-> NoTimer, sources |-> {}, nextSourceId |-> 2,
     inflight |-> SetToBag({[url |-> url, cookie |-> CookieHeader(<<Space, "a">>),
                             body |-> body]}),
     lastSessionUsed |-> 0, lastWeeklyUsed |-> 0,
     statusText |-> MsgConnecting, sessionDetail |-> BlankDetail,
     weeklyDetail |-> BlankDetail, settingsChangedId |-> TRUE,
     sessionBar |-> NewTokenBar, weeklyBar |-> NewTokenBar, icon |-> NewIcon,
     sessionResetTime |-> JNull, weeklyResetTime |-> JNull,
     sessionResetItem |-> BlankItem, weeklyResetItem |-> BlankItem,
     updatedItem |-> FALSE, testBtnSensitive |-> TRUE, testInflight |-> EmptyBag,
     testStatusLabel |-> NewTestStatusLabel]

\* the unprimed counterpart of Assign
Holds(s) ==
    /\ cookie = s.cookie
    /\ pollIntervalIdle = s.pollIntervalIdle
    /\ pollIntervalActive = s.pollIntervalActive
    /\ storedSessionUsed = s.storedSessionUsed
    /\ storedWeeklyUsed = s.storedWeeklyUsed
    /\ orgId = s.orgId
    /\ timerId = s.timerId
    /\ sources = s.sources
    /\ nextSourceId = s.nextSourceId
    /\ inflight = s.inflight
    /\ lastSessionUsed = s.lastSessionUsed
    /\ lastWeeklyUsed = s.lastWeeklyUsed
    /\ statusText = s.statusText
    /\ sessionDetail = s.sessionDetail
    /\ weeklyDetail = s.weeklyDetail
    /\ settingsChangedId = s.settingsChangedId
    /\ sessionBar = s.sessionBar
    /\ weeklyBar = s.weeklyBar
    /\ icon = s.icon
    /\ sessionResetTime = s.sessionResetTime
    /\ weeklyResetTime = s.weeklyResetTime
    /\ sessionResetItem = s.sessionResetItem
    /\ weeklyResetItem = s.weeklyResetItem
    /\ updatedItem = s.updatedItem
    /\ testBtnSensitive = s.testBtnSensitive
    /\ testInflight = s.testInflight
    /\ testStatusLabel = s.testStatusLabel

\* the organization lookup on its own: the first account request is
\* pending, and is answered 200 with a body of AccountPayloads
ResolverInit == \E j \in AccountPayloads : Holds(SentFirst(AccountEndpoint, JNull, j))

AccountAnswered ==
    \E req \in Answered(AccountRequests) : AccountComplete(req, OkResponse(req.body))

ResolverSpec == ResolverInit /\ [][AccountAnswered]_vars

\* the normalizer on its own: the account callback has cached the
\* organization and sent the first usage request, which is answered 200
\* with a body of UsagePayloads
NormalizerInit ==
    \E j \in UsagePayloads :
        Holds(SentFirst(UsageUrl(OrgName("1")), OrgName("1"), j))

UsageAnswered ==
    \E req \in Answered(UsageRequests) : UsageComplete(req, OkResponse(req.body))

NormalizerSpec == NormalizerInit /\ [][UsageAnswered]_vars

\* _safeInt on its own: the first usage request is answered 200 with a
\* body of SafeIntPayloads
SafeIntInit ==
    \E j \in SafeIntPayloads :
        Holds(SentFirst(UsageUrl(OrgName("1")), OrgName("1"), j))

SafeIntSpec == SafeIntInit /\ [][UsageAnswered]_vars

\* the bodies of the later polls: a Schema A part, or the quota list with
\* the one session item of 9 used of 5, and no flat keys
LaterPayloads ==
    {j \in UsagePayloads :
        /\ Prop(j, K_quotas) \in {JUndef, JArr(<<ItemB(T_session, 9, 5)>>)}
        /\ Prop(j, C_5hour_used) = JUndef /\ Prop(j, C_week_used) = JUndef}

\* the timer armed by a snapshot fires and the next usage request is sent
PollAgain == \E x \in sources : TimerFire(x)

\* a later usage request is answered 200 with a body of LaterPayloads
UsageAnsweredLater ==
    \E req \in UsageRequests \ Answered(UsageRequests) :
        \E j \in LaterPayloads : UsageComplete(req, OkResponse(j))

SnapshotsNext == UsageAnswered \/ PollAgain \/ UsageAnsweredLater

\* one snapshot after the other: the first a body of UsagePayloads, the
\* later ones bodies of LaterPayloads
SnapshotsSpec == NormalizerInit /\ [][SnapshotsNext]_vars

-----------------------------------------------------------------------------
(* Properties *)

\* going from s to t, a request is sent to the endpoint
Sends(s, t, endpoint) ==
    \E r \in BagToSet(t.inflight) :
        r.url.endpoint = endpoint /\ CopiesIn(r, t.inflight) > CopiesIn(r, s.inflight)

\* exactly one timer is pending, with this delay
ArmedWith(srcs, tid, delay) == srcs = {[id |-> tid, delay |-> delay]}

\* the response is one of the failures of the fetcher
FailureResponse(resp) ==
    \/ ~resp.transport
    \/ resp.status < 200 \/ resp.status > 299
    \/ ~resp.body.valid

\* t ends a poll cycle in an error: a message is shown and exactly one timer
\* is pending, armed with 60 seconds
ErrorEnd(t) ==
    /\ ArmedWith(t.sources, t.timerId, 60)
    /\ t.statusText \notin {MsgNone, MsgConnecting, MsgUsage}

\* C1: at most one account or usage request is in flight, in every
\* reachable state
C1_AtMostOneInFlight == BagCardinality(inflight) <= 1

\* C2: every handler run that ends a poll cycle in an error (a poll that
\* starts without credential, a failure response to either request, an
\* account body without organization, a credential blanked meanwhile) leaves
\* exactly one timer, armed with 60 seconds
C2_ErrorBackoff ==
    /\ \A x \in sources : Trim(cookie) = <<>> => ErrorEnd(AfterTimerFire(x))
    /\ \A req \in AccountRequests : \A resp \in Responses(req) :
          (FailureResponse(resp) \/ resp.body.json = EmptyJson \/ Trim(cookie) = <<>>)
             => ErrorEnd(AfterAccount(req, resp))
    /\ \A req \in UsageRequests : \A resp \in Responses(req) :
          FailureResponse(resp) => ErrorEnd(AfterUsage(req, resp))

C2_Witness ==
    /\ statusText = MsgAuthFailed
    /\ pollIntervalIdle # 60 /\ pollIntervalActive # 60
    /\ ArmedWith(sources, timerId, 60)

\* C3: after a successful usage fetch the timer is armed with the active
\* interval when the new used value of a window exceeds the last one, and
\* with the idle interval otherwise
C3_AdaptiveInterval ==
    \A req \in UsageRequests : \A su \in UsedValues : \A wu \in UsedValues :
        LET t == AfterUsage(req, [transport |-> TRUE, status |-> 200,
                                  body |-> JsonBody(UsageJson(su, wu))])
        IN  ArmedWith(t.sources, t.timerId,
                      IF su > lastSessionUsed \/ wu > lastWeeklyUsed
                      THEN pollIntervalActive ELSE pollIntervalIdle)

C3_Witness ==
    /\ statusText = MsgUsage
    /\ lastSessionUsed = 0 /\ lastWeeklyUsed = 1
    /\ ArmedWith(sources, timerId, pollIntervalIdle)
    /\ pollIntervalIdle # pollIntervalActive

\* C4: before destroy a timer is armed or a request is in flight, a
\* completion that sends no request arms a timer, and a poll starts again
\* and again unless destroy runs
C4_Rearmed(req, t) == t.inflight = Completed(req).inflight => t.sources # {}

C4_PollingNeverStalls ==
    /\ [](settingsChangedId => (sources # {} \/ inflight # EmptyBag))
    /\ [](/\ \A req \in AccountRequests : \A resp \in Responses(req) :
                C4_Rearmed(req, AfterAccount(req, resp))
          /\ \A req \in UsageRequests : \A resp \in Responses(req) :
                C4_Rearmed(req, AfterUsage(req, resp)))
    /\ ([]<><<PollStart>>_vars \/ <>(~settingsChangedId))

C4_Witness ==
    /\ settingsChangedId
    /\ statusText = MsgNoOrg
    /\ sources # {} /\ inflight = EmptyBag

\* C5: at most one timeout source is pending, and it is the one the
\* handle names, so a cancelled source is never left to fire
C5_OnePendingTimer ==
    /\ Cardinality(sources) <= 1
    /\ \A x \in sources : x.id = timerId

C5_Witness ==
    /\ statusText = MsgNone
    /\ ArmedWith(sources, timerId, 0)

\* C6: a credential change leaves exactly one timer, armed with delay 0,
\* and no cached organization; and the poll it armed still finds no cached
\* organization when it fires, so its fetch starts with the account endpoint
C6_CredentialPollStartsWithAccount ==
    /\ \A c \in Cookies \ {cookie} :
          LET t == AfterCredential(c)
          IN  ArmedWith(t.sources, t.timerId, 0) /\ t.orgId = JNull /\ t.cookie = c
    /\ \A x \in sources : x.delay = 0 => Falsy(orgId)

\* C7: 'Refresh now' leaves exactly one timer, armed with delay 0, and
\* changes nothing else; the fetch of a poll armed with delay 0 sends an
\* account request only if no organization is cached
C7_ManualRefresh ==
    /\ LET t == AfterRefresh
       IN  /\ ArmedWith(t.sources, t.timerId, 0)
           /\ t.orgId = orgId /\ t.cookie = cookie /\ t.inflight = inflight
           /\ t.lastSessionUsed = lastSessionUsed /\ t.lastWeeklyUsed = lastWeeklyUsed
           /\ t.storedSessionUsed = storedSessionUsed
           /\ t.storedWeeklyUsed = storedWeeklyUsed
    /\ \A x \in sources :
          (x.delay = 0 /\ Sends(St, AfterTimerFire(x), "current_account")) => Falsy(orgId)

C7_Witness ==
    /\ ~Falsy(orgId)
    /\ inflight = EmptyBag
    /\ ArmedWith(sources, timerId, 0)

\* C8: an empty, absent or blank credential gives no Cookie header; with
\* such a credential the fetcher hands the no-credential error to its caller
\* and sends nothing, and a poll that starts reports that error
C8_NoHeader ==
    \A c \in {<<>>, <<Space>>, <<Space, Space>>} : CookieHeader(c) = <<>>

C8_NoCredentialNoRequest ==
    /\ C8_NoHeader
    /\ Trim(cookie) = <<>> =>
          /\ \A url \in {AccountEndpoint, UsageUrl(orgId)} :
                LET g == Get(St, url)
                IN  ~g.sent /\ g.result = Err(MsgNoCookie) /\ g.s.inflight = inflight
          /\ \A x \in sources :
                LET t == AfterTimerFire(x)
                IN  /\ t.inflight = inflight
                    /\ t.statusText = MsgNoCookie
                    /\ ArmedWith(t.sources, t.timerId, 60)

C8_Witness ==
    /\ Trim(cookie) = <<>>
    /\ statusText = MsgNoCookie
    /\ inflight = EmptyBag

\* C9: the result of a completed request: 401 and 403 give the
\* authentication error whatever the body, another status outside 200..299
\* gives the HTTP error of that status, an unparseable 2xx body gives the
\* invalid-response error, a transport failure the network error, and a 2xx
\* status with a JSON body gives that JSON; the callback acts on that result
C9_Claimed(resp) ==
    IF ~resp.transport THEN Err(MsgNetwork)
    ELSE IF resp.status \in {401, 403} THEN Err(MsgAuthFailed)
    ELSE IF resp.status \notin 200..299 THEN Err(MsgHttp(resp.status))
    ELSE IF ~resp.body.valid THEN Err(MsgInvalidJson)
    ELSE Ok(resp.body.json)

C9_Statuses == {100, 199, 200, 201, 204, 299, 300, 301, 400, 401, 402, 403, 404, 500, 599}

C9_AllResponses ==
    {TransportFailure}
    \cup {[transport |-> TRUE, status |-> st, body |-> b] :
             st \in C9_Statuses,
             b \in {InvalidBody, JsonBody(EmptyJson), JsonBody(UsageJson(1, 0))}}

C9_ResultOfEveryResponse ==
    \A resp \in C9_AllResponses : HttpResult(resp) = C9_Claimed(resp)

C9_FetcherResult ==
    /\ C9_ResultOfEveryResponse
    /\ \A req \in UsageRequests : \A resp \in Responses(req) :
          LET t == AfterUsage(req, resp)
              r == C9_Claimed(resp)
          IN  IF r.err # MsgNone
              THEN t.statusText = r.err
              ELSE /\ t.statusText = MsgUsage
                   /\ t.lastSessionUsed = NormalizeTable[r.data].sessionUsed
                   /\ t.lastWeeklyUsed = NormalizeTable[r.data].weeklyUsed
    /\ \A req \in AccountRequests : \A resp \in Responses(req) :
          LET t == AfterAccount(req, resp)
              r == C9_Claimed(resp)
          IN  IF r.err # MsgNone
              THEN t.statusText = r.err
              ELSE t.orgId = ResolveOrgId(r.data)

C9_Witness ==
    /\ statusText = MsgHttp(300)
    /\ ArmedWith(sources, timerId, 60)

\* C10: a poll that starts with a cached organization sends no account
\* request, and no completion uncaches the organization (a completion leaves
\* the credential as it is), so the account endpoint is not asked again
C10_AccountOnlyWithoutOrg ==
    ~Falsy(orgId) =>
       /\ \A x \in sources : ~Sends(St, AfterTimerFire(x), "current_account")
       /\ \A req \in AccountRequests : \A resp \in Responses(req) :
             ~Falsy(AfterAccount(req, resp).orgId)
       /\ \A req \in UsageRequests : \A resp \in Responses(req) :
             ~Falsy(AfterUsage(req, resp).orgId)

\* the identifier places in the order of the list: the first membership
\* at top level, the first membership under 'account', then the three
\* top-level places; in an organization or workspace, uuid before id
C11_Places(data) ==
    LET m == First(Prop(data, K_memberships))
        am == First(Prop(Prop(data, K_account), K_memberships))
    IN  << Prop(Prop(m, K_organization), K_uuid), Prop(Prop(m, K_organization), K_id),
           Prop(Prop(m, K_workspace), K_uuid), Prop(Prop(m, K_workspace), K_id),
           Prop(Prop(am, K_organization), K_uuid), Prop(Prop(am, K_organization), K_id),
           Prop(Prop(am, K_workspace), K_uuid), Prop(Prop(am, K_workspace), K_id),
           Prop(data, K_id),
           Prop(data, K_organization_uuid),
           Prop(Prop(data, K_default_organization), K_uuid) >>

C11_FirstNonNull(places) ==
    LET found == {i \in 1..Len(places) : ~Nullish(places[i])}
    IN  IF found = {} THEN JNull
        ELSE places[CHOOSE i \in found : \A k \in found : i <= k]

\* C11: the account callback caches the first non-null identifier of the
\* places tried in order, for every account body
C11_FirstNonNullWins ==
    \A req \in Answered(AccountRequests) :
        AfterAccount(req, OkResponse(req.body)).orgId = C11_FirstNonNull(C11_Places(req.body))

\* the state after the pending timer of s fired
C12_NextPoll(s) == FetchData([s EXCEPT !.sources = {}, !.timerId = NoTimer])

SessionEntryOf(body) == Prop(Prop(body, K_rate_limit_status), <<"a">>)
WeeklyEntryOf(body) == Prop(Prop(body, K_rate_limit_status), <<"b">>)
OnlySchemaA(body) ==
    \A k \in {K_quotas, C_5hour_used, C_5hour_limit, C_week_used, C_week_limit} :
        Nullish(Prop(body, k))

\* the type text of an entry (the empty text for no entry)
TypeOf(entry) == ToText(Coalesce(Prop(entry, K_type), JStr(<<>>)))

\* the three fields of each window of a snapshot
SessionOf(w) == <<w.sessionUsed, w.sessionLimit, w.sessionReset>>
WeeklyOf(w) == <<w.weeklyUsed, w.weeklyLimit, w.weeklyReset>>

\* C13: the usage callback never ends in an error on a JSON body, and a
\* field no schema provides has its default: a body matching no schema gives
\* (0, 1, null) for both windows, a window no entry matches gives (0, 1, null),
\* a matched entry without total gives limit 1, one without reset gives null
C13_MissingFieldsDefault ==
    \A req \in Answered(UsageRequests) :
        LET body == req.body
            w == Normalize(body)
            e == SessionEntryOf(body)
            v == WeeklyEntryOf(body)
        IN  /\ AfterUsage(req, OkResponse(body)).statusText = MsgUsage
            /\ body = EmptyJson => w = DefaultSnapshot
            /\ OnlySchemaA(body) =>
                  /\ ~(\E x \in {e, v} : ReSessionA(TypeOf(x)))
                        => SessionOf(w) = <<0, 1, JNull>>
                  /\ ~(\E x \in {e, v} : ReWeek(TypeOf(x)))
                        => WeeklyOf(w) = <<0, 1, JNull>>
                  /\ (~Nullish(e) /\ ~ReSessionA(TypeOf(v)) /\ Nullish(Prop(e, K_total)))
                        => w.sessionLimit = 1
                  /\ (~Nullish(e) /\ ~ReSessionA(TypeOf(v)) /\ Nullish(Prop(e, K_resetsAt)))
                        => w.sessionReset = JNull
                  /\ (ReWeek(TypeOf(v)) /\ ~ReSessionA(TypeOf(v)) /\ Nullish(Prop(v, K_resetsAt)))
                        => w.weeklyReset = JNull

\* C14: a window that a Schema A entry of the payload has set keeps the
\* values Schema A gave it: neither a Schema B item nor a Schema C key for
\* the same window in the same payload overwrites them
C14_LaterSchemaOnlyFills ==
    \A req \in Answered(UsageRequests) :
        LET body == req.body
            a == SchemaA(DefaultSnapshot, body)
            w == Normalize(body)
        IN  /\ SessionOf(a) # SessionOf(DefaultSnapshot) => SessionOf(w) = SessionOf(a)
            /\ WeeklyOf(a) # WeeklyOf(DefaultSnapshot) => WeeklyOf(w) = WeeklyOf(a)

\* C15: a payload with the Session window only in Schema A (limit > 1) and
\* the Weekly window only in Schema C keys yields Session from the Schema A
\* entry and Weekly used and limit from the Schema C keys
C15_SessionAWeeklyC ==
    \A req \in Answered(UsageRequests) :
        LET body == req.body
            a == SchemaA(DefaultSnapshot, body)
            w == Normalize(body)
        IN  ( /\ ~Nullish(SessionEntryOf(body)) /\ a.sessionLimit > 1
              /\ Nullish(WeeklyEntryOf(body)) /\ Nullish(Prop(body, K_quotas))
              /\ Nullish(Prop(body, C_5hour_used)) /\ Nullish(Prop(body, C_5hour_limit))
              /\ ~Nullish(Prop(body, C_week_used)) /\ ~Nullish(Prop(body, C_week_limit)) )
            => /\ SessionOf(w) = SessionOf(a)
               /\ w.weeklyUsed = SafeInt(Prop(body, C_week_used))
               /\ w.weeklyLimit = SafeInt(Prop(body, C_week_limit))

\* an entry that carries remaining and total as numbers, and the window
\* values the payload states for it
NumericEntry(entry) ==
    Prop(entry, K_remaining).t = "num" /\ Prop(entry, K_total).t = "num"
StatedByEntry(entry) ==
    <<Prop(entry, K_total).n - Prop(entry, K_remaining).n, Prop(entry, K_total).n,
      Coalesce(Prop(entry, K_resetsAt), JNull)>>

\* C16: after the Schema A step a Schema A entry whose type matches the
\* session pattern has given Session used = total - remaining, limit = total
\* and the entry's reset, and one whose type matches the week pattern has
\* given Weekly the same of its own
C16_SchemaAEntryValues ==
    \A req \in Answered(UsageRequests) :
        LET a == SchemaA(DefaultSnapshot, req.body)
            e == SessionEntryOf(req.body)
            v == WeeklyEntryOf(req.body)
        IN  /\ (~Nullish(e) /\ NumericEntry(e) /\ ReSessionA(TypeOf(e)) /\ ~ReSessionA(TypeOf(v)))
                  => SessionOf(a) = StatedByEntry(e)
            /\ (~Nullish(v) /\ NumericEntry(v) /\ ReWeek(TypeOf(v)))
                  => WeeklyOf(a) = StatedByEntry(v)

\* C17: the snapshot of every payload has used >= 0 and limit > 0 for the
\* Session and the Weekly window
C17_SnapshotInRange ==
    \A req \in Answered(UsageRequests) :
        LET w == Normalize(req.body)
        IN  /\ w.sessionUsed >= 0 /\ w.sessionLimit > 0
            /\ w.weeklyUsed >= 0 /\ w.weeklyLimit > 0

\* the in-memory and the persisted last-used counters of a state
Counters(s) ==
    <<s.lastSessionUsed, s.storedSessionUsed, s.lastWeeklyUsed, s.storedWeeklyUsed>>

C19_RestartComparesWithPersisted ==
    /\ AtRest =>
          Counters(AfterRestart) =
              <<storedSessionUsed, storedSessionUsed, storedWeeklyUsed, storedWeeklyUsed>>
    /\ ~updatedItem =>
          \A req \in UsageRequests : \A resp \in Responses(req) :
              ~FailureResponse(resp) =>
                  LET used == <<NormalizeTable[resp.body.json].sessionUsed,
                                NormalizeTable[resp.body.json].weeklyUsed>>
                  IN  /\ used = <<storedSessionUsed, storedWeeklyUsed>> =>
                            ArmedWith(AfterUsage(req, resp).sources,
                                      AfterUsage(req, resp).timerId, pollIntervalIdle)
                      /\ (used[1] > storedSessionUsed \/ used[2] > storedWeeklyUsed) =>
                            ArmedWith(AfterUsage(req, resp).sources,
                                      AfterUsage(req, resp).timerId, pollIntervalActive)

\* the first usage request of a new indicator is pending, the previous one
\* having persisted a Session.used of 1
C19_Witness ==
    /\ settingsChangedId /\ ~updatedItem
    /\ storedSessionUsed = 1 /\ lastSessionUsed = 1
    /\ UsageRequests # {}

\* an error message is in the status line
ErrorShown == statusText \notin {MsgNone, MsgConnecting, MsgUsage}

\* C20: while an error message is in the status line no window reading is
\* presented: the detail lines are empty, and the bars, the icon and the
\* reset items show what they showed before any snapshot
C20_ErrorShowsNoReading ==
    ErrorShown =>
        /\ sessionDetail = BlankDetail /\ weeklyDetail = BlankDetail
        /\ sessionBar = NewTokenBar /\ weeklyBar = NewTokenBar
        /\ icon = NewIcon
        /\ sessionResetItem = BlankItem /\ weeklyResetItem = BlankItem

\* the detail line and the bar of a window show used of limit: the
\* percentage is the integer nearest to 100 * used / limit (a half goes up),
\* the bar's share is the smaller of used / limit and 3 / 2, and the fill is
\* no wider than the track
C21_Shown(detail, bar, used, limit) ==
    /\ detail.shown /\ detail.used = used /\ detail.limit = limit
    /\ 2 * limit * detail.pct - limit <= 200 * used
    /\ 200 * used < 2 * limit * detail.pct + limit
    /\ bar.pct[2] > 0
    /\ IF 2 * used >= 3 * limit
       THEN 2 * bar.pct[1] = 3 * bar.pct[2]
       ELSE bar.pct[1] * limit = used * bar.pct[2]
    /\ bar.fill <= BAR_WIDTH

\* C21: for a window whose limit is greater than 0, a usage response that
\* is applied shows round(used / limit * 100) as the percentage of the
\* detail line, gives the bar the fill ratio min(used / limit, 1.5) and a
\* fill width of at most BAR_WIDTH
C21_PercentageAndFill ==
    \A req \in Answered(UsageRequests) :
        /\ NormalizeTable[req.body].sessionLimit > 0 =>
              C21_Shown(AfterUsage(req, OkResponse(req.body)).sessionDetail,
                        AfterUsage(req, OkResponse(req.body)).sessionBar,
                        NormalizeTable[req.body].sessionUsed,
                        NormalizeTable[req.body].sessionLimit)
        /\ NormalizeTable[req.body].weeklyLimit > 0 =>
              C21_Shown(AfterUsage(req, OkResponse(req.body)).weeklyDetail,
                        AfterUsage(req, OkResponse(req.body)).weeklyBar,
                        NormalizeTable[req.body].weeklyUsed,
                        NormalizeTable[req.body].weeklyLimit)

\* a response with 9 used of 5 has been applied: 180 %, the share capped at
\* 3 / 2 and the whole track filled
C21_Witness ==
    /\ sessionDetail = Detail(9, 5, 180)
    /\ sessionBar.pct = <<3, 2>> /\ sessionBar.fill = BAR_WIDTH

\* C22: a window whose limit in the snapshot shown is not greater than 0
\* shows 0 percent in its detail line and a bar with the share 0 and the
\* fill width 0
C22_NoLimitShowsZero ==
    /\ (sessionDetail.shown /\ sessionDetail.limit <= 0) =>
          /\ sessionDetail.pct = 0
          /\ sessionBar.pct[1] = 0 /\ sessionBar.fill = 0
    /\ (weeklyDetail.shown /\ weeklyDetail.limit <= 0) =>
          /\ weeklyDetail.pct = 0
          /\ weeklyBar.pct[1] = 0 /\ weeklyBar.fill = 0

\* the share of a window reaches num / den (a window without a limit
\* greater than 0 has no share)
ShareAtLeast(used, limit, num, den) == limit > 0 /\ den * used >= num * limit

\* a window of the snapshot w is at its limit or beyond
C23_Critical(w) ==
    \/ ShareAtLeast(w.sessionUsed, w.sessionLimit, 1, 1)
    \/ ShareAtLeast(w.weeklyUsed, w.weeklyLimit, 1, 1)

\* a window of the snapshot w is at 80 % or beyond
C23_Warning(w) ==
    \/ ShareAtLeast(w.sessionUsed, w.sessionLimit, 4, 5)
    \/ ShareAtLeast(w.weeklyUsed, w.weeklyLimit, 4, 5)

\* the icon of the state the worse window of w is in: its name, and the
\* style classes of _init with the class of that state alone
C23_IconOf(w) ==
    IF C23_Critical(w)
    THEN [icon_name |-> "dialog-error-symbolic",
          class |-> {"ct-icon", "system-status-icon", "ct-icon-critical"}]
    ELSE IF C23_Warning(w)
    THEN [icon_name |-> "dialog-warning-symbolic",
          class |-> {"ct-icon", "system-status-icon", "ct-icon-warning"}]
    ELSE [icon_name |-> "utilities-system-monitor-symbolic",
          class |-> {"ct-icon", "system-status-icon"}]

\* the bodies a pending usage request can be answered with
C23_Bodies(req) == IF "body" \in DOMAIN req THEN {req.body} ELSE LaterPayloads

\* C23: a usage response that is applied leaves the icon in the state of
\* the worse of the two windows of its snapshot and of nothing else:
\* critical when the larger share is at least 100 %, warning when it is at
\* least 80 % and below 100 %, normal otherwise; whatever the icon showed
\* before, it carries the style class of that one state only
C23_IconShowsWorstWindow ==
    /\ Cardinality(icon.class \cap {"ct-icon-warning", "ct-icon-critical"}) <= 1
    /\ \A req \in UsageRequests : \A j \in C23_Bodies(req) :
          AfterUsage(req, OkResponse(j)).icon = C23_IconOf(NormalizeTable[j])

\* the icon is in the warning state and the next usage request is pending
C23_Witness ==
    /\ icon.icon_name = "dialog-warning-symbolic"
    /\ "ct-icon-warning" \in icon.class
    /\ UsageRequests \ Answered(UsageRequests) # {}

\* what _safeInt is to return for the values of SafeIntValues and for
\* undefined: 0 for null, undefined and a text without a number in front,
\* the integer otherwise, a fraction or a tail dropped
C24_Claimed ==
    {<<JNull, 0>>, <<JUndef, 0>>, <<JStr(<<"a","b","c">>), 0>>,
     <<JStr(<<"1","2","3">>), 123>>, <<JNum(123), 123>>,
     <<JStr(<<"1","2","3",".","7">>), 123>>,
     <<JStr(<<"-","5">>), 0 - 5>>, <<JStr(<<" ","4","2">>), 42>>,
     <<JStr(<<"1","2","a","b","c">>), 12>>, <<JStr(<<>>), 0>>,
     <<JNum(0 - 7), 0 - 7>>, <<JStr(<<".","5">>), 0>>, <<JNum(0), 0>>}

C24_Result(v) == CHOOSE n \in -7..123 : <<v, n>> \in C24_Claimed

\* C24: safeInt gives 0 for null, undefined and a value that does not
\* parse to an integer ("abc"), and the parsed integer otherwise, without
\* its fraction: "123", 123 and "123.7" give 123. Seen in the snapshot of a
\* usage response: Session.used is safeInt of the flat key's value,
\* Weekly.limit is safeInt of the entry's total, and Weekly.used is that
\* minus safeInt(undefined)
C24_SafeIntResults ==
    \A req \in Answered(UsageRequests) :
        /\ AfterUsage(req, OkResponse(req.body)).sessionDetail.used
               = C24_Result(Prop(req.body, C_5hour_used))
        /\ AfterUsage(req, OkResponse(req.body)).weeklyDetail.limit
               = C24_Result(Prop(WeeklyEntryOf(req.body), K_total))
        /\ AfterUsage(req, OkResponse(req.body)).weeklyDetail.used
               = C24_Result(Prop(WeeklyEntryOf(req.body), K_total)) - C24_Result(JUndef)

\* a response with a value of 123 under the flat key and no number as the
\* entry's total has been applied
C24_Witness ==
    /\ sessionDetail.shown /\ sessionDetail.used = 123
    /\ weeklyDetail = Detail(0, 0, 0)

\* C25: while the indicator lives, a cached organization is the one the
\* server knows for the credential now configured, and every usage request
\* in flight asks for the organization of the credential it carries
C25_OrgOfCurrentCredential ==
    settingsChangedId =>
        /\ orgId # JNull =>
              /\ CookieHeader(cookie) # <<>>
              /\ orgId = JStr(OrgOf(CookieHeader(cookie)))
        /\ \A r \in UsageRequests : r.url.org = JStr(OrgOf(r.cookie))

\* C26: once destroy has run, no timer is armed and no handler that runs
\* later (the callback of a request that was in flight, a timeout callback)
\* arms a timer or sends a request
C26_DestroyedStaysQuiet ==
    ~settingsChangedId =>
        /\ sources = {} /\ timerId = NoTimer
        /\ \A req \in AccountRequests : \A resp \in Responses(req) :
              /\ AfterAccount(req, resp).sources = {}
              /\ AfterAccount(req, resp).inflight \sqsubseteq inflight
        /\ \A req \in UsageRequests : \A resp \in Responses(req) :
              /\ AfterUsage(req, resp).sources = {}
              /\ AfterUsage(req, resp).inflight \sqsubseteq inflight

\* C27: the Test button is insensitive exactly while a test request is in
\* flight, so at most one is; the callback of the request makes it
\* sensitive again whatever the outcome; a test with an empty cookie sends
\* no request and leaves the button sensitive
C27_TestButton ==
    /\ testBtnSensitive <=> testInflight = EmptyBag
    /\ BagCardinality(testInflight) <= 1
    /\ \A req \in BagToSet(testInflight) : \A resp \in TestResponses :
          /\ AfterTestCompleted(req, resp).testBtnSensitive
          /\ AfterTestCompleted(req, resp).testInflight = EmptyBag
    /\ (testBtnSensitive /\ Trim(cookie) = <<>>) =>
          /\ AfterTestClicked.testInflight = EmptyBag
          /\ AfterTestClicked.testBtnSensitive
    /\ (testBtnSensitive /\ Trim(cookie) # <<>>) =>
          /\ BagCardinality(AfterTestClicked.testInflight) = 1
          /\ ~AfterTestClicked.testBtnSensitive

\* a test request with the cookie 'sessionKey=b' is in flight
C27_Witness ==
    /\ ~testBtnSensitive
    /\ testInflight = SetToBag({[cookie |-> <<Prefix, "b">>]})
    /\ testStatusLabel.label = MsgTesting

====
